---- MODULE Spec2Model ----
(***************************************************************************)
(* Model of the Eidos execution engine (src/src/core/execution_engine.py)  *)
(* together with the oracle worker (src/src/ai/workers.py) and the part of *)
(* AIManager that creates workers (src/src/ai/ai_manager.py).              *)
(*                                                                         *)
(* The engine lives in the GUI thread: every handler (run_flow,            *)
(* stop_execution, _handle_ai_result, _handle_ai_error, _ai_task_finished) *)
(* runs to completion before the next one starts, so each is one action.   *)
(* Each AIWorker runs in its own QThread and talks to the engine through   *)
(* queued signals: the signals of one worker are delivered in the order    *)
(* they were emitted, the signals of different workers in any order.       *)
(***************************************************************************)
EXTENDS Integers, Sequences, FiniteSets, Bags, TLC

\* ------------------------------------------------------------------ bounds
MaxCfgDepth == 1      \* MAX_EXECUTION_DEPTH is drawn from 0..MaxCfgDepth
MaxRuns == 1          \* number of accepted run_flow calls explored
MaxAnswerLen == 2     \* number of comma separated items in an oracle answer
MaxEdits == 1         \* number of edges the user deletes from the diagram

\* ------------------------------------------------------------- the diagram
Nodes == {"A", "B", "C", "D"}

NoEdges == [n \in Nodes |-> <<>>]

\* edges_out of every NodeItem: the list of end items of its outgoing edges,
\* in the order the edges were added.  DiagramScene.add_edge accepts a second
\* edge between the same two nodes and an edge from a node to itself.
Graphs ==
  { NoEdges,
    [NoEdges EXCEPT !["A"] = <<"B", "C">>],
    [NoEdges EXCEPT !["A"] = <<"B", "B">>, !["B"] = <<"C">>],
    [NoEdges EXCEPT !["A"] = <<"B">>, !["B"] = <<"A">>],
    [NoEdges EXCEPT !["A"] = <<"A">>],
    [NoEdges EXCEPT !["A"] = <<"B", "C">>, !["B"] = <<"D">>, !["C"] = <<"A">>],
    [NoEdges EXCEPT !["A"] = <<"B">>, !["B"] = <<"C">>, !["C"] = <<"D">>] }

\* What the process_code of a node does with _result: assign a new value,
\* raise, leave it None, or assign input_data (the default script).
process_code == [n \in Nodes |->
                   CASE n = "B" -> "raise"
                     [] n = "C" -> "none"
                     [] n = "D" -> "pass"
                     [] OTHER   -> "value"]

VARIABLES
  edges_out,          \* NodeItem.edges_out of every node of the scene
  max_depth,          \* ExecutionEngine.max_depth
  client,             \* AIManager.client is not None
  is_running,         \* ExecutionEngine.is_running
  stop_requested,     \* ExecutionEngine.stop_requested
  execution_paused,   \* ExecutionEngine.execution_paused
  paused_tasks,       \* ExecutionEngine.paused_tasks, in insertion order
  active_ai_threads,  \* keys of ExecutionEngine.active_ai_threads
  workers,            \* the AIWorker objects the engine tracks
  stale,              \* the AIWorker objects it dropped, signals still to come
  heap,               \* the set objects handed around as `visited`
  emitted,            \* number of executionFinished emissions
  runs,               \* number of accepted run_flow calls
  scriptExecs,        \* node scripts executed in the current run
  oracleCalls,        \* oracle workers started in the current run
  stopSeen,           \* stop_execution was accepted in the current run
  atStop,             \* <<scriptExecs, oracleCalls>> when it was accepted
  edits,              \* number of edges deleted from the diagram so far
  atFinish,           \* <<stored paths, tracked workers>> when the run finished
  outcomes,           \* bag of the path outcomes of the current run
  deterministic,      \* every answer of the current run was OracleAnswer
  log,                \* the _execute_step calls of the last handler
  lastEvent           \* what the last handler was and what it found

vars == << edges_out, max_depth, client, is_running, stop_requested,
           execution_paused, paused_tasks, active_ai_threads, workers, stale,
           heap, emitted, runs, scriptExecs, oracleCalls, stopSeen,
           atStop, edits, atFinish, outcomes, deterministic, log, lastEvent >>

\* ----------------------------------------------------------------- helpers
Range(s) == { s[i] : i \in DOMAIN s }

NoDup(s) == \A i, j \in DOMAIN s : s[i] = s[j] => i = j

\* The engine's mutable state as one value, threaded through the handlers.
St == [ is_running |-> is_running, stop_requested |-> stop_requested,
        execution_paused |-> execution_paused, paused_tasks |-> paused_tasks,
        active_ai_threads |-> active_ai_threads, workers |-> workers,
        heap |-> heap, emitted |-> emitted,
        scriptExecs |-> scriptExecs, oracleCalls |-> oracleCalls,
        atFinish |-> atFinish, outcomes |-> outcomes,
        deterministic |-> deterministic,
        log |-> <<>>, children |-> <<>> ]

\* Python dict operations on paused_tasks (insertion ordered).
DictHas(d, k) == \E i \in DOMAIN d : d[i].key = k

DictGet(d, k) == d[CHOOSE i \in DOMAIN d : d[i].key = k]

DictSet(d, v) ==
  IF DictHas(d, v.key)
    THEN [i \in DOMAIN d |-> IF d[i].key = v.key THEN v ELSE d[i]]
    ELSE Append(d, v)

DictPop(d, k) == SelectSeq(d, LAMBDA t : t.key # k)

\* ------------------------------------------------------------ the sandbox
\* A plausible slip: a script that raises leaves an empty payload behind.
node_output_data_swallowed(item, input_data, id) ==
  CASE process_code[item] = "raise" -> [kind |-> "empty", src |-> item, obj |-> id]
    [] process_code[item] = "none"  -> [kind |-> "empty", src |-> item, obj |-> id]
    [] process_code[item] = "pass"  -> input_data
    [] OTHER                        -> [kind |-> "data", src |-> item, obj |-> id]

\* The node_output_data _execute_step ends up with for a node's script: a
\* MultiModalData built from _result, an empty one when _result stays None,
\* an error-tagged one when the script raises.  A payload is an object: obj
\* is its identity, id the identity of a MultiModalData created now; the
\* default script hands back the input_data object itself.
node_output_data(item, input_data, id) ==
  CASE process_code[item] = "raise" -> [kind |-> "error", src |-> item, obj |-> id]
    [] process_code[item] = "none"  -> [kind |-> "empty", src |-> item, obj |-> id]
    [] process_code[item] = "pass"  -> input_data
    [] OTHER                        -> [kind |-> "data", src |-> item, obj |-> id]

\* start_node_item.node_data.custom_data
initial_data(item) == [kind |-> "initial", src |-> item, obj |-> 0]

\* What a payload holds, whichever object holds it.
Content(data) == [kind |-> data.kind, src |-> data.src]

\* ------------------------------------------------------------- the engine
\* What a run reports about one _execute_step call: the path it was on, the
\* node it entered and how the call ended.
PathOutcome(entry) ==
  [gpath |-> entry.gpath, node |-> entry.node, outcome |-> entry.outcome]

\* Python evaluates an argument once, before the call.
ByValue(S) == CHOOSE x \in S : TRUE

Logged(e, entry) ==
  [e EXCEPT !.log = Append(@, entry),
            !.outcomes = @ (+) SetToBag({PathOutcome(entry)})]

\* _cleanup_threads: every tracked worker is cancelled (its thread is still
\* running: the thread's quit is delivered together with the worker's
\* finished signal, which is what untracks it) and untracked.
_cleanup_threads(e) ==
  [e EXCEPT !.workers = [w \in DOMAIN @ |->
                           IF w \in e.active_ai_threads
                             THEN [@[w] EXCEPT !._is_cancelled = TRUE]
                             ELSE @[w]],
            !.active_ai_threads = {}]

\* A plausible slip: is_running is left set.
_finish_execution_staysrunning(e) ==
  IF ~e.is_running THEN e
  ELSE [_cleanup_threads([e EXCEPT !.stop_requested = FALSE,
                                   !.execution_paused = FALSE,
                                   !.paused_tasks = <<>>])
          EXCEPT !.emitted = @ + 1,
                 !.atFinish = << Len(e.paused_tasks),
                                 Cardinality(e.active_ai_threads) >>]

\* A plausible slip: stop_requested is not reset.
_finish_execution_keepflag(e) ==
  IF ~e.is_running THEN e
  ELSE [_cleanup_threads([e EXCEPT !.is_running = FALSE,
                                   !.execution_paused = FALSE,
                                   !.paused_tasks = <<>>])
          EXCEPT !.emitted = @ + 1,
                 !.atFinish = << Len(e.paused_tasks),
                                 Cardinality(e.active_ai_threads) >>]

_finish_execution(e) ==
  IF ~e.is_running THEN e
  ELSE [_cleanup_threads([e EXCEPT !.is_running = FALSE,
                                   !.stop_requested = FALSE,
                                   !.execution_paused = FALSE,
                                   !.paused_tasks = <<>>])
          EXCEPT !.emitted = @ + 1,
                 !.atFinish = << Len(e.paused_tasks),
                                 Cardinality(e.active_ai_threads) >>]

\* A plausible slip: the test for tracked workers is left out.
_check_and_finish_execution_nothreads(e) ==
  IF e.is_running /\ ~e.execution_paused /\ e.paused_tasks = <<>>
    THEN _finish_execution(e)
    ELSE e

_check_and_finish_execution(e0) ==
  ByValue({
    IF e.is_running /\ ~e.execution_paused /\ e.active_ai_threads = {}
       /\ e.paused_tasks = <<>>
      THEN _finish_execution(e)
      ELSE e
    : e \in {e0} })

\* potential_next: the ids of the end items of the outgoing edges.
potential_next(item) == Range(edges_out[item])

\* The identity of a newly created AIWorker object: one that no live worker
\* and no stored path state carries.
NewWorker(e) ==
  LET used == DOMAIN e.workers \cup { e.paused_tasks[i].owner : i \in DOMAIN e.paused_tasks }
  IN CHOOSE n \in 1..(Cardinality(used) + 1) :
       n \notin used /\ \A m \in 1..(n - 1) : m \in used

\* AIManager.decide_next_step_async: no worker without a client.
decide_next_step_async(e, item) ==
  IF client THEN NewWorker(e) ELSE 0

\* A plausible slip: the test for a terminal node is left out.
NoOutgoingEdges_dropped(item) == FALSE

\* `not outgoing_edges` of _execute_step (line 192).
NoOutgoingEdges(item) == edges_out[item] = <<>>

\* The tail of _execute_step (lines 190-249): the decision phase.
DecisionPhase(e0, item, output, visited, depth, gpath, entry) ==
  ByValue({
    IF NoOutgoingEdges(item)
      THEN _check_and_finish_execution(
             Logged(e, [entry EXCEPT !.outcome = "terminal"]))
      ELSE
        LET worker == decide_next_step_async(e, item) IN
        IF worker # 0
          THEN
            LET state_tuple == [key |-> item, item |-> item, output |-> output,
                                visited |-> visited, depth |-> depth,
                                owner |-> worker, gpath |-> gpath]
            IN Logged([e EXCEPT
                   !.execution_paused = TRUE,
                   !.paused_tasks = DictSet(@, state_tuple),
                   !.active_ai_threads = @ \cup {worker},
                   !.workers = (worker :> [potential_nodes |-> potential_next(item),
                                           _is_cancelled |-> FALSE,
                                           phase |-> "running",
                                           queue |-> <<>>,
                                           own |-> <<state_tuple>>]) @@ @,
                   !.oracleCalls = @ + 1],
                 [entry EXCEPT !.outcome = "paused", !.worker = worker,
                               !.request = <<output>>])
          ELSE _check_and_finish_execution(
                 Logged(e, [entry EXCEPT !.outcome = "no_worker",
                                         !.request = <<output>>]))
    : e \in {e0} })

\* A plausible slip: the depth test is off by one.
DepthExceeded_offbyone(depth) == depth >= max_depth

\* The depth test of _execute_step (line 134).
DepthExceeded(depth) == depth > max_depth

\* The visited test of _execute_step (line 130).
AlreadyVisited(e, item, visited) == item \in e.heap[visited]

\* A plausible slip: the node is never recorded as visited.
VisitedAdd_forgotten(e, item, visited) == e

\* visited.add(node_id): the set object is changed in place.
VisitedAdd(e, item, visited) == [e EXCEPT !.heap[visited] = @ \cup {item}]

\* _execute_step(current_node_item, input_data, visited, depth); visited is
\* a reference into heap, gpath the nodes this path executed so far.
_execute_step(e0, item, input_data, visited, depth, gpath) ==
  ByValue({
    LET entry == [node |-> item, depth |-> depth, visited |-> e.heap[visited],
                  gpath |-> gpath, input |-> input_data, outcome |-> "aborted",
                  request |-> <<>>, worker |-> 0]
    IN
    IF ~e.is_running \/ e.stop_requested
      THEN _check_and_finish_execution(Logged(e, entry))
    ELSE IF AlreadyVisited(e, item, visited)
      THEN _check_and_finish_execution(
             Logged(e, [entry EXCEPT !.outcome = "cycle"]))
    ELSE IF DepthExceeded(depth)
      THEN _check_and_finish_execution(
             Logged(e, [entry EXCEPT !.outcome = "maxdepth"]))
    ELSE
      LET e1 == [VisitedAdd(e, item, visited) EXCEPT !.scriptExecs = @ + 1]
          output == node_output_data(item, input_data, e1.scriptExecs)
      IN IF e1.stop_requested
           THEN _finish_execution(
                  Logged(e1, [entry EXCEPT !.outcome = "stopped_after_script"]))
           ELSE DecisionPhase(e1, item, output, visited, depth,
                              Append(gpath, item), entry)
    : e \in {e0} })

\* The outcomes of _execute_step in which the node's script was executed.
Executed(entry) ==
  entry.outcome \in {"stopped_after_script", "terminal", "paused", "no_worker"}

\* A plausible slip: the child is started with a new empty set.
ResumeChild_emptyset(e, next_node_item, paused) ==
  LET fresh == Len(e.heap) + 1
      e1 == [e EXCEPT !.heap = Append(@, {}),
                      !.children = Append(@, next_node_item)]
  IN _execute_step(e1, next_node_item, paused.output, fresh,
                   paused.depth + 1, paused.gpath)

\* A plausible slip: the children are handed the parent's set itself.
ResumeChild_shared(e, next_node_item, paused) ==
  _execute_step([e EXCEPT !.children = Append(@, next_node_item)],
                next_node_item, paused.output, paused.visited,
                paused.depth + 1, paused.gpath)

\* A plausible slip: the child is entered at its parent's depth.
ResumeChild_samedepth(e, next_node_item, paused) ==
  LET copy == Len(e.heap) + 1
      e1 == [e EXCEPT !.heap = Append(@, e.heap[paused.visited]),
                      !.children = Append(@, next_node_item)]
  IN _execute_step(e1, next_node_item, paused.output, copy,
                   paused.depth, paused.gpath)

\* One iteration of the loop of _handle_ai_result (lines 306-313): the child
\* gets paused_visited.copy(), a new set object.
ResumeChild(e, next_node_item, paused) ==
  LET copy == Len(e.heap) + 1
      e1 == [e EXCEPT !.heap = Append(@, e.heap[paused.visited]),
                      !.children = Append(@, next_node_item)]
  IN _execute_step(e1, next_node_item, paused.output, copy,
                   paused.depth + 1, paused.gpath)

RECURSIVE ResumeAll(_, _, _)
ResumeAll(e, next_node_items_to_execute, paused) ==
  IF next_node_items_to_execute = <<>> THEN e
  ELSE ResumeAll(ResumeChild(e, Head(next_node_items_to_execute), paused),
                 Tail(next_node_items_to_execute), paused)

\* The lookup both response handlers use: the first key of paused_tasks, if
\* the sending worker is still tracked.  <<>> stands for None.
originating_node_id(e, worker) ==
  IF e.paused_tasks # <<>> /\ worker \in e.active_ai_threads
    THEN <<e.paused_tasks[1].key>>
    ELSE <<>>

\* The end items of the paused node's outgoing edges that were chosen.
next_node_items(paused, chosen_node_ids) ==
  SelectSeq(edges_out[paused.item], LAMBDA t : t \in Range(chosen_node_ids))

\* _handle_ai_result, for the signal result_ready(chosen_node_ids) of worker.
_handle_ai_result(e, worker, chosen_node_ids) ==
  IF ~e.is_running THEN e
  ELSE
    LET orig == originating_node_id(e, worker) IN
    IF orig = <<>> THEN e
    ELSE
      LET paused == DictGet(e.paused_tasks, orig[1])
          popped == DictPop(e.paused_tasks, orig[1])
          e1 == [e EXCEPT !.paused_tasks = popped,
                          !.execution_paused = Len(popped) > 0]
      IN IF e1.stop_requested
           THEN _check_and_finish_execution(e1)
           ELSE _check_and_finish_execution(
                  ResumeAll(e1, next_node_items(paused, chosen_node_ids),
                            paused))

\* A plausible slip: execution_paused is not updated after the pop.
_handle_ai_error_staypaused(e, worker) ==
  IF ~e.is_running THEN e
  ELSE
    LET orig == originating_node_id(e, worker) IN
    IF orig # <<>>
      THEN _check_and_finish_execution(
             [e EXCEPT !.paused_tasks = DictPop(@, orig[1])])
      ELSE _check_and_finish_execution(e)

\* _handle_ai_error, for the signal error_occurred of worker.
_handle_ai_error(e, worker) ==
  IF ~e.is_running THEN e
  ELSE
    LET orig == originating_node_id(e, worker) IN
    IF orig # <<>>
      THEN LET popped == DictPop(e.paused_tasks, orig[1])
           IN _check_and_finish_execution(
                [e EXCEPT !.paused_tasks = popped,
                          !.execution_paused = Len(popped) > 0])
      ELSE _check_and_finish_execution(e)

\* A plausible slip: the last line, the call of _check_and_finish_execution,
\* is left out.
_ai_task_finished_nocheck(e, worker) ==
  [e EXCEPT !.active_ai_threads = @ \ {worker}]

\* _ai_task_finished, for the signal finished of worker.
_ai_task_finished(e, worker) ==
  _check_and_finish_execution(
    [e EXCEPT !.active_ai_threads = @ \ {worker}])

\* run_flow once the call is accepted (lines 72-98).
run_flow(e, start_node_item) ==
  LET e0 == _cleanup_threads([e EXCEPT !.is_running = TRUE,
                                       !.stop_requested = FALSE,
                                       !.execution_paused = FALSE,
                                       !.paused_tasks = <<>>])
      e1 == [e0 EXCEPT !.heap = << {} >>, !.scriptExecs = 0,
                       !.oracleCalls = 0, !.atFinish = <<0, 0>>,
                       !.outcomes = EmptyBag, !.deterministic = TRUE]
      e2 == _execute_step(e1, start_node_item, initial_data(start_node_item),
                          1, 0, <<>>)
  IN IF e2.is_running /\ ~e2.execution_paused
       THEN _check_and_finish_execution(e2)
       ELSE e2

\* A plausible slip: the flag is set but the workers are not told.
stop_execution_nocancel(e) ==
  LET e1 == [e EXCEPT !.stop_requested = TRUE]
  IN IF ~e1.execution_paused THEN _finish_execution(e1) ELSE e1

\* A plausible slip: the stop flag is never set.
stop_execution_noflag(e) ==
  LET e1 == [e EXCEPT !.workers = [w \in DOMAIN @ |->
                                     IF w \in e.active_ai_threads
                                       THEN [@[w] EXCEPT !._is_cancelled = TRUE]
                                       ELSE @[w]]]
  IN IF ~e1.execution_paused THEN _finish_execution(e1) ELSE e1

\* stop_execution once the call is accepted (lines 104-118).
stop_execution(e) ==
  LET e1 == [e EXCEPT !.stop_requested = TRUE,
                      !.workers = [w \in DOMAIN @ |->
                                     IF w \in e.active_ai_threads
                                       THEN [@[w] EXCEPT !._is_cancelled = TRUE]
                                       ELSE @[w]]]
  IN IF ~e1.execution_paused THEN _finish_execution(e1) ELSE e1

\* ------------------------------------------------------------- the worker
\* The items an answer to worker w is made of: the candidate ids it was
\* given, "zz" for any id outside them, and the word NONE in two cases.
AnswerTokens(w) == w.potential_nodes \cup {"zz", "NONE", "none"}

Answers(w) == UNION { [1..n -> AnswerTokens(w)] : n \in 0..MaxAnswerLen }

\* str.upper() on the items that occur.
Upper(t) ==
  CASE t = "none" -> "NONE"
    [] t = "zz"   -> "ZZ"
    [] OTHER      -> t

\* A plausible slip: the test `item not in validated_ids` is left out.
RECURSIVE Validate_keepdups(_, _, _)
Validate_keepdups(raw_chosen_items, valid_potential_ids, validated_ids) ==
  IF raw_chosen_items = <<>> THEN validated_ids
  ELSE LET item == Head(raw_chosen_items) IN
       Validate_keepdups(Tail(raw_chosen_items), valid_potential_ids,
                         IF item \in valid_potential_ids
                           THEN Append(validated_ids, item)
                           ELSE validated_ids)

RECURSIVE Validate(_, _, _)
Validate(raw_chosen_items, valid_potential_ids, validated_ids) ==
  IF raw_chosen_items = <<>> THEN validated_ids
  ELSE LET item == Head(raw_chosen_items) IN
       Validate(Tail(raw_chosen_items), valid_potential_ids,
                IF item \in valid_potential_ids /\ item \notin Range(validated_ids)
                  THEN Append(validated_ids, item)
                  ELSE validated_ids)

\* The parse of AIWorker.run (lines 65-87); the answer is the list of the
\* comma separated items of ai_response_text.
chosen_ids(answer, potential_nodes) ==
  IF answer = <<>> \/ (Len(answer) = 1 /\ Upper(answer[1]) = "NONE")
    THEN <<>>
    ELSE Validate(answer, potential_nodes, <<>>)

Signal(kind, ids) == [kind |-> kind, ids |-> ids]

\* A plausible slip: the emissions do not look at the cancellation flag.
EmittedSignals_ignorecancel(w, failed, answer) ==
  IF failed THEN << Signal("error_occurred", <<>>), Signal("finished", <<>>) >>
  ELSE << Signal("result_ready", chosen_ids(answer, w.potential_nodes)),
          Signal("finished", <<>>) >>

\* The signals AIWorker.run emits (lines 103-110).
EmittedSignals(w, failed, answer) ==
  IF w._is_cancelled THEN << Signal("finished", <<>>) >>
  ELSE IF failed THEN << Signal("error_occurred", <<>>), Signal("finished", <<>>) >>
  ELSE << Signal("result_ready", chosen_ids(answer, w.potential_nodes)),
          Signal("finished", <<>>) >>

\* A deterministic oracle: asked about a node, it always names every
\* candidate, in the order of the node's outgoing edges.
OracleAnswer(item) == edges_out[item]

\* What the run of worker w queues when that oracle answers it.
OracleSignals(w) ==
  EmittedSignals(w, FALSE, OracleAnswer(w.own[1].item))

\* What one AIWorker.run can queue: the request fails, or it is answered.
RunOutcomes(w) ==
  { EmittedSignals(w, TRUE, <<>>) }
    \cup { EmittedSignals(w, FALSE, answer) : answer \in Answers(w) }

\* ---------------------------------------------------------------- actions
Event(kind, worker, node, popped, chosen, children) ==
  [kind |-> kind, worker |-> worker, node |-> node, before |-> paused_tasks,
   popped |-> popped, chosen |-> chosen, children |-> children]

\* The paused state a response handler takes out of paused_tasks.
Popped(worker) ==
  IF is_running /\ originating_node_id(St, worker) # <<>>
    THEN << paused_tasks[1] >>
    ELSE <<>>

\* A worker the engine no longer tracks: it is told apart from the tracked
\* ones only by not being a key of active_ai_threads.
Untracked(w) ==
  [potential_nodes |-> w.potential_nodes, _is_cancelled |-> w._is_cancelled,
   phase |-> w.phase, queue |-> w.queue]

\* The workers a handler stopped tracking without waiting for their signals.
Dropped(e) ==
  LET ids == DOMAIN e.workers \ e.active_ai_threads
  IN [r \in { Untracked(e.workers[w]) : w \in ids } |->
        Cardinality({ w \in ids : Untracked(e.workers[w]) = r })]

Set(e) ==
  /\ is_running' = e.is_running
  /\ stop_requested' = e.stop_requested
  /\ execution_paused' = e.execution_paused
  /\ paused_tasks' = e.paused_tasks
  /\ active_ai_threads' = e.active_ai_threads
  /\ heap' = e.heap
  /\ emitted' = e.emitted
  /\ scriptExecs' = e.scriptExecs
  /\ oracleCalls' = e.oracleCalls
  /\ atFinish' = e.atFinish
  /\ outcomes' = e.outcomes
  /\ deterministic' = e.deterministic
  /\ log' = e.log

SetWith(e, others) ==
  /\ Set(e)
  /\ workers' = [w \in e.active_ai_threads |-> e.workers[w]]
  /\ stale' = others (+) Dropped(e)

Init ==
  /\ edges_out \in Graphs
  /\ max_depth \in 0..MaxCfgDepth
  /\ client \in BOOLEAN
  /\ is_running = FALSE
  /\ stop_requested = FALSE
  /\ execution_paused = FALSE
  /\ paused_tasks = <<>>
  /\ active_ai_threads = {}
  /\ workers = <<>>
  /\ stale = EmptyBag
  /\ heap = <<>>
  /\ emitted = 0
  /\ runs = 0
  /\ scriptExecs = 0
  /\ oracleCalls = 0
  /\ stopSeen = FALSE
  /\ atStop = <<0, 0>>
  /\ edits = 0
  /\ atFinish = <<0, 0>>
  /\ outcomes = EmptyBag
  /\ deterministic = TRUE
  /\ log = <<>>
  /\ lastEvent = Event("init", 0, "A", <<>>, <<>>, <<>>)

\* The user clicks a node in execute mode: run_flow(start_node_item).
RunFlow(start_node_item) ==
  /\ runs < MaxRuns
  /\ ~is_running
  /\ SetWith(run_flow(St, start_node_item), stale)
  /\ runs' = runs + 1
  /\ stopSeen' = FALSE
  /\ atStop' = <<0, 0>>
  /\ lastEvent' = Event("run_flow", 0, start_node_item, <<>>, <<>>, <<>>)
  /\ UNCHANGED << edges_out, max_depth, client, edits >>

\* A plausible slip: the reset of lines 73-77 comes before the test.
RunFlowRejected_resetfirst(start_node_item) ==
  /\ is_running
  /\ SetWith([St EXCEPT !.stop_requested = FALSE,
                        !.execution_paused = FALSE,
                        !.paused_tasks = <<>>], stale)
  /\ lastEvent' = Event("run_flow_rejected", 0, "A", <<>>, <<>>, <<>>)
  /\ UNCHANGED << edges_out, max_depth, client, edits, runs, stopSeen, atStop >>

\* run_flow while a flow is running returns at once (lines 64-67).
RunFlowRejected(start_node_item) ==
  /\ is_running
  /\ SetWith(St, stale)
  /\ lastEvent' = Event("run_flow_rejected", 0, "A", <<>>, <<>>, <<>>)
  /\ UNCHANGED << edges_out, max_depth, client, edits, runs, stopSeen, atStop >>

\* The window is closed: stop_execution() on a running flow.
StopExecution ==
  /\ is_running
  /\ SetWith(stop_execution(St), stale)
  /\ stopSeen' = TRUE
  /\ atStop' = IF stopSeen THEN atStop ELSE <<scriptExecs, oracleCalls>>
  /\ lastEvent' = Event("stop_execution", 0, "A", <<>>, <<>>, <<>>)
  /\ UNCHANGED << edges_out, max_depth, client, edits, runs >>

\* A plausible slip: stop_execution without the test of is_running.
StopIgnored_unguarded ==
  /\ ~is_running
  /\ lastEvent.kind # "stop_ignored"
  /\ SetWith(stop_execution(St), stale)
  /\ lastEvent' = Event("stop_ignored", 0, "A", <<>>, <<>>, <<>>)
  /\ UNCHANGED << edges_out, max_depth, client, edits, runs, stopSeen, atStop >>

\* stop_execution() when nothing runs returns at once (lines 102-103).
StopIgnored ==
  /\ ~is_running
  /\ lastEvent.kind # "stop_ignored"
  /\ SetWith(St, stale)
  /\ lastEvent' = Event("stop_ignored", 0, "A", <<>>, <<>>, <<>>)
  /\ UNCHANGED << edges_out, max_depth, client, edits, runs, stopSeen, atStop >>

\* AIWorker.run of worker w reaches its end: the request failed or was
\* answered, and the signals are queued for the engine.
AIWorkerRun(w) ==
  /\ w \in DOMAIN workers
  /\ workers[w].phase = "running"
  /\ \E signals \in RunOutcomes(workers[w]) :
       /\ workers' = [workers EXCEPT ![w].phase = "emitted",
                                     ![w].queue = signals]
       /\ deterministic' = (deterministic /\ signals = OracleSignals(workers[w]))
  /\ UNCHANGED << edges_out, max_depth, client, edits, is_running, stop_requested,
                  execution_paused, paused_tasks, active_ai_threads, stale, heap,
                  emitted, runs, scriptExecs, oracleCalls,
                  stopSeen, atStop, atFinish, outcomes, log, lastEvent >>

\* The engine without the head of worker w's signal queue.
Taken(w) == [St EXCEPT !.workers[w].queue = Tail(@)]

\* result_ready of worker w is delivered to _handle_ai_result.
DeliverResult(w) ==
  /\ w \in DOMAIN workers
  /\ workers[w].queue # <<>>
  /\ Head(workers[w].queue).kind = "result_ready"
  /\ \E e \in {_handle_ai_result(Taken(w), w, Head(workers[w].queue).ids)} :
        /\ SetWith(e, stale)
        /\ lastEvent' = Event("result_ready", w, "A", Popped(w),
                              Head(workers[w].queue).ids, e.children)
  /\ UNCHANGED << edges_out, max_depth, client, edits, runs, stopSeen, atStop >>

\* error_occurred of worker w is delivered to _handle_ai_error.
DeliverError(w) ==
  /\ w \in DOMAIN workers
  /\ workers[w].queue # <<>>
  /\ Head(workers[w].queue).kind = "error_occurred"
  /\ SetWith(_handle_ai_error(Taken(w), w), stale)
  /\ lastEvent' = Event("error_occurred", w, "A", Popped(w), <<>>, <<>>)
  /\ UNCHANGED << edges_out, max_depth, client, edits, runs, stopSeen, atStop >>

\* finished of worker w is delivered to _ai_task_finished; the worker object
\* is deleted (deleteLater).
DeliverFinished(w) ==
  /\ w \in DOMAIN workers
  /\ workers[w].queue # <<>>
  /\ Head(workers[w].queue).kind = "finished"
  /\ LET e == _ai_task_finished(St, w)
     IN SetWith([e EXCEPT !.workers = [x \in DOMAIN @ \ {w} |-> @[x]]], stale)
  /\ lastEvent' = Event("finished", w, "A", <<>>, <<>>, <<>>)
  /\ UNCHANGED << edges_out, max_depth, client, edits, runs, stopSeen, atStop >>

\* The user deletes the selected edge with the Delete key; the edge selected
\* is the outgoing edge of node n that was added last.
\* DiagramScene.keyPressEvent does not look at the engine, so the edge goes
\* whether or not a flow is running.
DeleteEdge(n) ==
  /\ edits < MaxEdits
  /\ edges_out[n] # <<>>
  /\ edges_out' = [edges_out EXCEPT
                     ![n] = SubSeq(@, 1, Len(@) - 1)]
  /\ edits' = edits + 1
  /\ log' = <<>>
  /\ lastEvent' = Event("delete_edge", 0, "A", <<>>, <<>>, <<>>)
  /\ UNCHANGED << max_depth, client, is_running, stop_requested,
                  execution_paused, paused_tasks, active_ai_threads, workers,
                  stale, heap, emitted, runs, scriptExecs, oracleCalls,
                  stopSeen, atStop, atFinish, outcomes, deterministic >>

\* AIWorker.run of a dropped worker reaches its end.
StaleWorkerRun(r) ==
  /\ BagIn(r, stale)
  /\ r.phase = "running"
  /\ \E signals \in RunOutcomes(r) :
       stale' = (stale (-) SetToBag({r}))
                  (+) SetToBag({[r EXCEPT !.phase = "emitted", !.queue = signals]})
  /\ UNCHANGED << edges_out, max_depth, client, edits, is_running, stop_requested,
                  execution_paused, paused_tasks, active_ai_threads, workers,
                  heap, emitted, runs, scriptExecs, oracleCalls, stopSeen,
                  atStop, atFinish, outcomes, deterministic, log, lastEvent >>

\* The next signal of a dropped worker is delivered to its handler; the
\* sender is no key of active_ai_threads (0 stands for it).
DeliverStale(r) ==
  /\ BagIn(r, stale)
  /\ r.queue # <<>>
  /\ LET sig == Head(r.queue)
         rest == IF sig.kind = "finished" THEN EmptyBag
                 ELSE SetToBag({[r EXCEPT !.queue = Tail(@)]})
         e == CASE sig.kind = "result_ready" -> _handle_ai_result(St, 0, sig.ids)
                [] sig.kind = "error_occurred" -> _handle_ai_error(St, 0)
                [] OTHER -> _ai_task_finished(St, 0)
     IN /\ SetWith(e, (stale (-) SetToBag({r})) (+) rest)
        /\ lastEvent' = Event(sig.kind, 0, "A", Popped(0), sig.ids, e.children)
  /\ UNCHANGED << edges_out, max_depth, client, edits, runs, stopSeen, atStop >>

Next ==
  \/ \E n \in Nodes : RunFlow(n)
  \/ \E n \in Nodes : RunFlowRejected(n)
  \/ StopExecution
  \/ StopIgnored
  \/ \E w \in DOMAIN workers : AIWorkerRun(w)
  \/ \E w \in DOMAIN workers : DeliverResult(w)
  \/ \E w \in DOMAIN workers : DeliverError(w)
  \/ \E w \in DOMAIN workers : DeliverFinished(w)
  \/ \E r \in BagToSet(stale) : StaleWorkerRun(r)
  \/ \E r \in BagToSet(stale) : DeliverStale(r)
  \/ \E n \in {"A"} : DeleteEdge(n)

Spec == Init /\ [][Next]_vars

\* A step of a tracked worker or of the delivery of its signals.
WorkerStep ==
  \E w \in DOMAIN workers :
    AIWorkerRun(w) \/ DeliverResult(w) \/ DeliverError(w) \/ DeliverFinished(w)

\* Every started worker's API call returns or fails, so its run() reaches
\* the emissions, and the GUI thread's event loop delivers every queued
\* signal: a worker step that stays possible is taken.
FairSpec == Spec /\ WF_vars(WorkerStep)

\* The engine after construction (lines 46-60), as one value.
NewEngine ==
  [ is_running |-> FALSE, stop_requested |-> FALSE,
    execution_paused |-> FALSE, paused_tasks |-> <<>>,
    active_ai_threads |-> {}, workers |-> <<>>, heap |-> <<>>,
    emitted |-> 0, scriptExecs |-> 0, oracleCalls |-> 0,
    atFinish |-> <<0, 0>>, outcomes |-> EmptyBag, deterministic |-> TRUE,
    log |-> <<>>, children |-> <<>> ]

\* The states in which the parse of AIWorker.run gets its inputs: a first
\* run_flow(start_node_item) has paused at its start node, so one worker
\* holds the candidates of that node and waits for its answer.
ParseInit ==
  /\ edges_out \in Graphs
  /\ max_depth \in 0..MaxCfgDepth
  /\ client = TRUE
  /\ \E start_node_item \in Nodes :
       \E e \in {run_flow(NewEngine, start_node_item)} :
         /\ e.paused_tasks # <<>>
         /\ is_running = e.is_running
         /\ stop_requested = e.stop_requested
         /\ execution_paused = e.execution_paused
         /\ paused_tasks = e.paused_tasks
         /\ active_ai_threads = e.active_ai_threads
         /\ workers = [w \in e.active_ai_threads |-> e.workers[w]]
         /\ heap = e.heap
         /\ emitted = e.emitted
         /\ scriptExecs = e.scriptExecs
         /\ oracleCalls = e.oracleCalls
         /\ atFinish = e.atFinish
         /\ outcomes = e.outcomes
         /\ deterministic = e.deterministic
         /\ log = e.log
         /\ lastEvent = [kind |-> "run_flow", worker |-> 0,
                         node |-> start_node_item, before |-> <<>>,
                         popped |-> <<>>, chosen |-> <<>>, children |-> <<>>]
  /\ stale = EmptyBag
  /\ runs = 1
  /\ stopSeen = FALSE
  /\ atStop = <<0, 0>>
  /\ edits = 0

\* The worker's run ends: the answer is parsed and the signals are queued.
ParseNext == \E w \in DOMAIN workers : AIWorkerRun(w)

ParseSpec == ParseInit /\ [][ParseNext]_vars

\* ------------------------------------------------------------- properties
Entries == Range(log)

PausedStates == Range(paused_tasks)

\* The last handler was a response handler that took a stored path state.
ResponseHandled ==
  /\ lastEvent.kind \in {"result_ready", "error_occurred"}
  /\ lastEvent.popped # <<>>

\* C1: every oracle response (result or error) is applied to the stored
\* state of the path that issued the request: the state a response handler
\* takes out of paused_tasks is the one stored when the sending worker was
\* started, never that of another path.
C1_ResponseAppliedToOwnPath ==
  ResponseHandled => lastEvent.popped[1].owner = lastEvent.worker

\* C2: after stop_execution() on a running flow, once every oracle worker
\* has delivered its response or acknowledged the cancellation and its
\* finished signal has been handled, the run is finished (is_running False).
C2_StopReachesFinished ==
  (stopSeen /\ DOMAIN workers = {} /\ stale = EmptyBag) => ~is_running

\* C3: after stop_execution() was accepted on a running flow, no further
\* node script is executed and no further oracle request is started in that
\* run, whatever responses arrive afterwards.
C3_NoWorkAfterStop ==
  stopSeen => /\ scriptExecs = atStop[1]
              /\ oracleCalls = atStop[2]
              /\ \A en \in Entries : ~Executed(en) /\ en.worker = 0

\* A result with chosen ids arrived after the stop and its path was dropped.
C3_Witness ==
  /\ stopSeen
  /\ lastEvent.kind = "result_ready"
  /\ lastEvent.popped # <<>>
  /\ lastEvent.chosen # <<>>
  /\ lastEvent.children = <<>>

\* C4: a failure of one path's oracle call ends only that path: the stored
\* state of every other awaiting path is still in paused_tasks after the
\* error was handled, and the run is still running while such a path waits.
C4_ErrorKeepsSiblings ==
  lastEvent.kind = "error_occurred" =>
    \A i \in DOMAIN lastEvent.before :
      lastEvent.before[i].owner # lastEvent.worker =>
        /\ lastEvent.before[i] \in PausedStates
        /\ is_running

\* C5: on an oracle success with a non-empty set S of valid chosen ids for
\* the node N that asked, exactly one child is forked per distinct id of S:
\* none is skipped, none is forked twice.
C5_OneChildPerChosenId ==
  (lastEvent.kind = "result_ready" /\ lastEvent.popped # <<>> /\ ~stopSeen
   /\ lastEvent.chosen # <<>>) =>
    /\ NoDup(lastEvent.children)
    /\ Range(lastEvent.children) = Range(lastEvent.chosen)

\* C6: a node without outgoing edges never gets an oracle request, and a run
\* started at such a node executes one script, starts no worker and has
\* finished (executionFinished emitted) when run_flow returns.
C6_TerminalNodeNoOracle ==
  /\ \A en \in Entries : edges_out[en.node] = <<>> => en.worker = 0
  /\ (lastEvent.kind = "run_flow" /\ edges_out[lastEvent.node] = <<>>) =>
       /\ Len(log) = 1
       /\ scriptExecs = 1
       /\ oracleCalls = 0
       /\ active_ai_threads = {}
       /\ ~is_running
       /\ emitted = runs

C6_Witness ==
  /\ lastEvent.kind = "run_flow"
  /\ edges_out[lastEvent.node] = <<>>
  /\ scriptExecs = 1
  /\ emitted = 1

\* C7: no script is executed and no oracle request is issued for a node
\* entered at a depth greater than max_depth; the path ends there.  A node
\* entered at depth max_depth or less that is not yet visited is executed.
C7_MaxDepth ==
  \A en \in Entries :
    /\ (Executed(en) \/ en.worker # 0) => en.depth <= max_depth
    /\ en.outcome = "maxdepth" => en.depth > max_depth
    /\ (en.depth <= max_depth /\ en.node \notin en.visited
        /\ en.outcome # "aborted") => Executed(en)

\* A path arrived at depth max_depth + 1 and was ended there.
C7_Witness ==
  \E en \in Entries : en.depth = max_depth + 1 /\ en.outcome = "maxdepth"

\* C8: along one path a node's script is executed at most once: a path that
\* enters a node of its visited set ends without executing the script and
\* without consulting the oracle.
C8_NodeAtMostOncePerPath ==
  /\ \A en \in Entries :
       /\ Executed(en) => en.node \notin Range(en.gpath)
       /\ en.node \in en.visited =>
            ~Executed(en) /\ en.worker = 0 /\ en.outcome \in {"cycle", "aborted"}
  /\ \A t \in PausedStates : NoDup(t.gpath)

C8_Witness ==
  \E en \in Entries : en.outcome = "cycle" /\ en.node \in en.visited

\* A path comes back to the node it was forked from two hops ago (A -> C -> A)
\* and that node has two different targets to fork into.
ReturnsToForkNode(en) ==
  /\ Len(en.gpath) >= 2
  /\ en.node = en.gpath[Len(en.gpath) - 1]
  /\ Cardinality(potential_next(en.node)) >= 2

\* C9 as stated: given node A forking into children B and C, a return to A
\* via C executes A's script again instead of ending the path as a cycle.
C9_ReturnToForkNodeExecutes ==
  \A en \in Entries : ReturnsToForkNode(en) => Executed(en)

\* C9 as amended: a return to A via C does not execute A again: A is in the
\* copy of the visited set C's path got at the fork, so the path ends as a
\* cycle, without script and without oracle request; only nodes of the
\* path itself end a path that way.
C9_ReturnToForkNodeIsCycle ==
  \A en \in Entries :
    /\ ReturnsToForkNode(en) =>
         en.outcome = "cycle" /\ en.worker = 0 /\ ~Executed(en)
    /\ en.outcome = "cycle" => en.node \in Range(en.gpath)

C9_Witness ==
  \E en \in Entries : ReturnsToForkNode(en) /\ en.outcome = "cycle"

\* C10: visited sets are path-local: every stored path state has a set object
\* of its own that holds exactly the nodes of that path, a path is entered
\* with exactly the nodes of its own ancestors in its set, so what one
\* child adds is never seen by a sibling or by the parent's stored state.
C10_VisitedSetsPathLocal ==
  /\ \A i, j \in DOMAIN paused_tasks :
       i # j => paused_tasks[i].visited # paused_tasks[j].visited
  /\ \A t \in PausedStates : heap[t.visited] = Range(t.gpath)
  /\ \A w \in active_ai_threads :
       \A i \in DOMAIN workers[w].own :
         workers[w].own[i] \in PausedStates =>
           heap[workers[w].own[i].visited] = Range(workers[w].own[i].gpath)
  /\ \A en \in Entries : en.visited = Range(en.gpath)

\* Two sibling paths wait for the oracle with different visited sets.
C10_Witness ==
  \E i, j \in DOMAIN paused_tasks :
    /\ i # j
    /\ paused_tasks[i].depth = paused_tasks[j].depth
    /\ paused_tasks[i].depth >= 1
    /\ heap[paused_tasks[i].visited] # heap[paused_tasks[j].visited]

\* The node the current run was started at.
StartNode == (CHOOSE r \in BagToSet(outcomes) : r.gpath = <<>>).node

\* No node has two outgoing edges to the same node.
NoParallelEdges == \A n \in Nodes : NoDup(edges_out[n])

\* The path outcomes of a run in which every awaiting path is resumed with
\* the answer OracleAnswer gave for its own node: the one outcome of
\* entering item, and below a fork the outcomes of every target.
RECURSIVE Unfold(_, _, _), UnfoldAll(_, _, _)
Unfold(item, gpath, depth) ==
  LET Ends(o) == SetToBag({[gpath |-> gpath, node |-> item, outcome |-> o]})
  IN IF item \in Range(gpath) THEN Ends("cycle")
     ELSE IF depth > max_depth THEN Ends("maxdepth")
     ELSE IF edges_out[item] = <<>> THEN Ends("terminal")
     ELSE IF ~client THEN Ends("no_worker")
     ELSE Ends("paused")
            (+) UnfoldAll(edges_out[item], Append(gpath, item), depth + 1)

UnfoldAll(items, gpath, depth) ==
  IF items = <<>> THEN EmptyBag
  ELSE Unfold(Head(items), gpath, depth) (+) UnfoldAll(Tail(items), gpath, depth)

\* C11: for a deterministic oracle and deterministic scripts, the bag of
\* executed paths and path outcomes of a finished run depends only on the
\* graph and the start node, not on the order in which the responses of
\* concurrent workers were delivered: it is the bag the run has when every
\* response is delivered before the next worker answers.
C11_DeliveryOrderIrrelevant ==
  (runs > 0 /\ ~is_running /\ ~stopSeen /\ deterministic /\ NoParallelEdges
   /\ edits = 0)
    => outcomes = Unfold(StartNode, <<>>, 0)

\* The worker's own path: the state stored when it was started.
OwnState(w) == workers[w].own[1]

\* C12: when the answer to a worker holds only ids that are not among its
\* candidates, the worker emits result_ready with an empty list (and not
\* error_occurred); when the engine handles that result the worker's own
\* path ends: nothing is forked, no script runs, no further oracle call is
\* made and the path's stored state is gone.
C12_UnknownIdsEndThePath ==
  /\ \A w \in DOMAIN workers : \A answer \in Answers(workers[w]) :
       (answer # <<>> /\ Range(answer) \cap workers[w].potential_nodes = {}
        /\ ~workers[w]._is_cancelled) =>
         EmittedSignals(workers[w], FALSE, answer)
           = << Signal("result_ready", <<>>), Signal("finished", <<>>) >>
  /\ (lastEvent.kind = "result_ready" /\ lastEvent.worker \in DOMAIN workers
      /\ lastEvent.chosen = <<>> /\ lastEvent.popped # <<>> /\ ~stopSeen) =>
       /\ lastEvent.children = <<>>
       /\ log = <<>>
       /\ OwnState(lastEvent.worker) \notin PausedStates

\* The payload _execute_step builds when the script of node n raised.
ErrorPayload(n) == [kind |-> "error", src |-> n]

\* C13: a node whose script raises does not stop its path: its output is an
\* error-tagged payload, and if the node has outgoing edges the engine
\* makes exactly one oracle request for it (one decide_next_step_async
\* call, and with a configured client one worker) that carries this
\* payload as the node output, which is also what the path stores.
C13_ScriptErrorStillAsksOracle ==
  \A en \in Entries :
    (process_code[en.node] = "raise" /\ Executed(en)) =>
      /\ en.outcome # "stopped_after_script"
      /\ edges_out[en.node] = <<>> => en.request = <<>>
      /\ edges_out[en.node] # <<>> =>
           /\ Len(en.request) = 1
           /\ Content(en.request[1]) = ErrorPayload(en.node)
           /\ client =>
                /\ en.outcome = "paused"
                /\ en.worker \in active_ai_threads
                /\ OwnState(en.worker).item = en.node
                /\ OwnState(en.worker).output = en.request[1]

\* A forked child whose script raised waits for the oracle's answer.
C13_Witness ==
  \E en \in Entries :
    /\ process_code[en.node] = "raise"
    /\ en.depth >= 1
    /\ en.outcome = "paused"
    /\ Content(en.request[1]) = ErrorPayload(en.node)
    /\ OwnState(en.worker) \in PausedStates

\* C14: when AIManager.client is None the run fails fast and starts no
\* path: no node script is executed in any run.
C14_NoClientNoScript ==
  ~client => /\ scriptExecs = 0
             /\ \A en \in Entries : ~Executed(en)

\* The engine has not yet handled the response (result or error) of w.
ResponsePending(w) ==
  \/ workers[w].phase = "running"
  \/ /\ workers[w].queue # <<>>
     /\ Head(workers[w].queue).kind \in {"result_ready", "error_occurred"}

\* C15: no path is silently lost: in a running flow that was not stopped,
\* every path whose oracle outcome has not been handled yet still has its
\* own stored state in paused_tasks, so that the outcome can be applied to
\* it before the run completes; two paths that wait at the same node at the
\* same time each keep their own stored state.
C15_NoPathLost ==
  (is_running /\ ~stopSeen) =>
    \A w \in active_ai_threads :
      ResponsePending(w) => OwnState(w) \in PausedStates

\* C16: a run on which stop was never requested is declared finished only
\* in a state where no path awaits a decision and no oracle worker is
\* tracked: when _finish_execution ran, paused_tasks and active_ai_threads
\* were both empty, so no request of the run was outstanding.
C16_FinishOnlyWhenIdle ==
  (runs > 0 /\ ~is_running /\ ~stopSeen) =>
    /\ atFinish = <<0, 0>>
    /\ emitted >= 1

\* A run with a fork finished when its last worker's finished signal came.
C16_Witness ==
  /\ runs > 0 /\ ~is_running /\ ~stopSeen
  /\ lastEvent.kind = "finished"
  /\ oracleCalls >= 3
  /\ atFinish = <<0, 0>>

\* C17: between the handlers of a running flow that was not stopped, the
\* stored awaiting-path states and the workers whose response has not been
\* handled yet correspond one to one: there are as many of the one as of
\* the other, and every stored state belongs to such a worker.
C17_RegistryOneToOne ==
  (is_running /\ ~stopSeen) =>
    /\ Len(paused_tasks)
         = Cardinality({ w \in active_ai_threads : ResponsePending(w) })
    /\ \A t \in PausedStates :
         t.owner \in active_ai_threads /\ ResponsePending(t.owner)

\* C18: when a stop was requested while a path awaited a decision and the
\* path's worker still delivers a result, the result is discarded: no child
\* is forked, no script is executed, and the stored state of that path is
\* removed from paused_tasks.
C18_ResultAfterStopDiscarded ==
  (stopSeen /\ lastEvent.kind = "result_ready"
   /\ lastEvent.worker \in DOMAIN workers
   /\ OwnState(lastEvent.worker) \in Range(lastEvent.before)) =>
    /\ lastEvent.children = <<>>
    /\ log = <<>>
    /\ scriptExecs = atStop[1]
    /\ OwnState(lastEvent.worker) \notin PausedStates

\* C19: a stop request on a running flow sets stop_requested and asks every
\* live oracle worker to cancel: once stop_execution() has returned, the
\* flag is set for as long as the run goes on and every worker that is
\* still in active_ai_threads has _is_cancelled set.
C19_StopCancelsLiveWorkers ==
  (stopSeen /\ is_running) =>
    /\ stop_requested
    /\ \A w \in active_ai_threads : workers[w]._is_cancelled

\* stop_execution() has just returned with two workers still in their call.
C19_Witness ==
  /\ lastEvent.kind = "stop_execution"
  /\ is_running
  /\ Cardinality({ w \in active_ai_threads :
                     workers[w].phase = "running" /\ workers[w]._is_cancelled }) >= 2

\* C20: the start node is entered at depth 0 and every forked child at its
\* parent's depth plus 1, so the depth of a call is the number of nodes
\* executed before it on its path; whenever a node's script is executed at
\* depth d, the path's visited set then holds exactly d + 1 node ids.
C20_DepthCountsHops ==
  /\ lastEvent.kind = "run_flow" => \A en \in Entries : en.depth = 0
  /\ (lastEvent.kind = "result_ready" /\ lastEvent.popped # <<>>) =>
       \A en \in Entries : en.depth = lastEvent.popped[1].depth + 1
  /\ \A en \in Entries :
       /\ en.depth = Len(en.gpath)
       /\ Executed(en) => Cardinality(en.visited \cup {en.node}) = en.depth + 1
       /\ en.outcome = "paused" =>
            Cardinality(heap[OwnState(en.worker).visited]) = en.depth + 1
  /\ \A t \in PausedStates : Cardinality(heap[t.visited]) = t.depth + 1

\* A forked child's script was executed at depth 1 with two ids in its set.
C20_Witness ==
  /\ lastEvent.kind = "result_ready"
  /\ \E en \in Entries :
       /\ Executed(en)
       /\ en.depth = 1
       /\ Cardinality(en.visited \cup {en.node}) = 2

\* C21: the diagram is read-only for the duration of a run: no step taken
\* while the engine is running removes (or adds) an edge, so the outgoing
\* edges a node has when its answer is handled are the ones it had when
\* the request was issued.
C21_GraphReadOnlyDuringRun ==
  [][is_running => edges_out' = edges_out]_vars

\* C22: when a node forks several children, each child gets the parent's
\* output payload as its input, and each gets a copy of its own: no two
\* children forked by one answer are handed the same payload object.
C22_PayloadCopiedPerChild ==
  (lastEvent.kind = "result_ready" /\ lastEvent.popped # <<>>) =>
    /\ \A i \in DOMAIN log :
         Content(log[i].input) = Content(lastEvent.popped[1].output)
    /\ \A i, j \in DOMAIN log :
         i # j => log[i].input.obj # log[j].input.obj

\* The place of the first occurrence of item t in the answer.
FirstIndex(answer, t) ==
  CHOOSE i \in DOMAIN answer :
    answer[i] = t /\ \A j \in 1..(i - 1) : answer[j] # t

\* The list r holds exactly the items of the answer that are in the set
\* ids, each once, in the order of their first occurrence in the answer.
IsFiltered(r, answer, ids) ==
  /\ NoDup(r)
  /\ Range(r) = Range(answer) \cap ids
  /\ \A i, j \in DOMAIN r :
       i < j => FirstIndex(answer, r[i]) < FirstIndex(answer, r[j])

\* C23: the list a worker emits through result_ready holds exactly the ids
\* of the comma separated answer that are candidates of that worker, in
\* answer order and without duplicates; an empty answer and the word NONE
\* in any letter case give the empty list; ids outside the candidates are
\* dropped and do not make the response an error.
C23_ChosenIdsAreFilteredAnswer ==
  \A w \in DOMAIN workers : \A answer \in Answers(workers[w]) :
    LET ids == workers[w].potential_nodes
        signals == EmittedSignals([workers[w] EXCEPT !._is_cancelled = FALSE],
                                  FALSE, answer)
    IN /\ Len(signals) = 2
       /\ signals[1].kind = "result_ready"
       /\ signals[2].kind = "finished"
       /\ IsFiltered(signals[1].ids, answer, ids)
       /\ (answer = <<>> \/ answer = <<"NONE">> \/ answer = <<"none">>) =>
            signals[1].ids = <<>>

\* A worker has emitted two chosen ids in answer order, not in edge order.
C23_Witness ==
  \E w \in DOMAIN workers :
    /\ workers[w].phase = "emitted"
    /\ workers[w].queue # <<>>
    /\ Head(workers[w].queue).kind = "result_ready"
    /\ Head(workers[w].queue).ids = <<"C", "B">>
    /\ edges_out[OwnState(w).item] = <<"B", "C">>

\* C24: if stop is never requested and every started worker emits its
\* signals, every run eventually finishes: from any state in which a flow
\* is running, a state is reached in which it is no longer running (or a
\* stop was requested).
C24_RunTerminates ==
  (is_running /\ ~stopSeen) ~> (~is_running \/ stopSeen)

\* A run that was never stopped has finished after the cycle check or the
\* depth limit ended one of its paths.
C24_Witness ==
  /\ runs > 0 /\ ~is_running /\ ~stopSeen
  /\ emitted = runs
  /\ \E r \in BagToSet(outcomes) : r.outcome \in {"cycle", "maxdepth"}

\* The signals of one run, as the claim C25 wants them: finished once and
\* last, at most one response signal before it, and none if the worker was
\* cancelled when the emissions were reached.
Responses(queue) ==
  { i \in DOMAIN queue : queue[i].kind \in {"result_ready", "error_occurred"} }

OneRunsSignals(queue, cancelled) ==
  /\ queue # <<>>
  /\ { i \in DOMAIN queue : queue[i].kind = "finished" } = {Len(queue)}
  /\ Cardinality(Responses(queue)) <= 1
  /\ cancelled => Responses(queue) = {}

\* C25: when the run of a worker ends, what it has emitted is finished
\* exactly once, preceded by at most one of result_ready and error_occurred,
\* and finished alone if the worker was cancelled before the emissions.
C25_WorkerSignalOrder ==
  [][\A w \in DOMAIN workers \cap DOMAIN workers' :
       (workers[w].phase = "running" /\ workers'[w].phase = "emitted")
         => OneRunsSignals(workers'[w].queue, workers[w]._is_cancelled)]_vars

\* A worker that was cancelled by a stop while its request was open has
\* ended its run with finished alone, and the engine still tracks it.
C25_Witness ==
  \E w \in DOMAIN workers :
    /\ workers[w]._is_cancelled
    /\ workers[w].phase = "emitted"
    /\ workers[w].queue = << Signal("finished", <<>>) >>
    /\ w \in active_ai_threads
    /\ stopSeen /\ is_running

\* C26: executionFinished is emitted at most once for each run_flow call
\* that started a run: there are never more emissions than started runs,
\* and while a run is under way its own emission has not happened yet.
C26_FinishedAtMostOncePerRun ==
  /\ emitted <= runs
  /\ is_running => emitted < runs

\* The finished signal of a worker the finish had dropped is handled after
\* the run ended, and the run's one emission stays the only one.
C26_Witness ==
  /\ lastEvent.kind = "finished" /\ lastEvent.worker = 0
  /\ runs > 0 /\ ~is_running
  /\ emitted = runs

C28_IdleEngineIsClean ==
  ~is_running =>
    /\ paused_tasks = <<>>
    /\ active_ai_threads = {}
    /\ ~execution_paused
    /\ ~stop_requested

\* A run was ended by a stop while a worker was still tracked: the finish
\* had a flag to reset and a worker to untrack.
C28_Witness ==
  /\ runs > 0 /\ ~is_running
  /\ stopSeen
  /\ atFinish[2] >= 1
  /\ stale # EmptyBag

C30_IdleCallsChangeNothing ==
  [][(~is_running
      /\ lastEvent'.kind \in {"stop_ignored", "result_ready", "error_occurred"})
       => UNCHANGED << is_running, stop_requested, execution_paused,
                       paused_tasks, active_ai_threads, workers, heap,
                       emitted, scriptExecs, oracleCalls, outcomes >>]_vars

\* The result of a worker the finish had dropped arrived after the run
\* ended, naming a node, and nothing was resumed.
C30_Witness ==
  /\ lastEvent.kind = "result_ready"
  /\ lastEvent.worker = 0
  /\ lastEvent.chosen # <<>>
  /\ lastEvent.children = <<>>
  /\ runs > 0 /\ ~is_running
  /\ scriptExecs = atStop[1]

====
